---- MODULE Spec2Model ----
(***************************************************************************)
(* vsfetch: the poll loop of vsfetch/dynamic.py (loop, process,            *)
(* store_track, store_pilots, store_controllers, delete_old_keys) against  *)
(* the versioned object store, with the reference lookups of               *)
(* vsfetch/fixed.py that store_controllers uses.                           *)
(*                                                                         *)
(* Every await of a network call is one step of the model, so that a       *)
(* failure of the call and the state of the store between two calls are    *)
(* both visible.  Optional[T] is modelled as a sequence: <<>> is None and  *)
(* <<x>> is the value x.  Strings that the code splits or slices are       *)
(* sequences of one-character strings.                                     *)
(***************************************************************************)
EXTENDS Integers, Sequences, FiniteSets, TLC

VARIABLES
    version,      \* loop: the retained version (Optional[int])
    pc,           \* where the single loop task stands
    inflight,     \* number of process() calls started and not yet ended
    data,         \* process: the snapshot of the cycle in flight
    maps,         \* the key -> value maps of the cycle (object_map, airport_map, ...)
    existing,     \* delete_old_keys: keys returned by the store (local `keys`)
    store,        \* the versioned object store: the set of keys it holds
    fixed_data,   \* vsfetch.fixed._data (Optional[Data])
    runway_data,  \* vsfetch.ourairports._data is loaded
    delay,        \* seconds of the asyncio.sleep the loop is in (0: not asleep)
    outcome,      \* how the cycle ended that the loop sleeps after
    log,          \* the store requests issued by the cycle in flight, in order
    start,        \* retained version and store keys when the cycle in flight began
    history,      \* what is recorded besides the program's state: "writes"
                  \* (lastwrite, under SpecHistory), "lists" (the controllers
                  \* and atis lists a cycle read, under SpecLists)
    lastwrite,    \* version of the last ended cycle that wrote to the store
    lookup        \* the last call of a lookup of fixed.Data and what it returned

vars == <<version, pc, inflight, data, maps, existing, store, fixed_data,
          runway_data, delay, outcome, log, start, history, lastwrite, lookup>>

(***************************************************************************)
(* Bounds of the model.                                                    *)
(***************************************************************************)
MaxVersion == 2
MaxPilots == 2
MaxCtrls == 1
MaxAtis == 1
MaxAirports == 2
MaxFirs == 2
MaxCountries == 2

None == <<>>
Some(x) == <<x>>

SeqsUpTo(S, n) == UNION {[1..k -> S] : k \in 0..n}

\* Feed versions: general.update_timestamp in epoch milliseconds.
Versions == 0..MaxVersion

(***************************************************************************)
(* Strings of the reference data and of the feed.                          *)
(***************************************************************************)
EGLL == <<"E", "G", "L", "L">>
LHR == <<"L", "H", "R">>
EGTT == <<"E", "G", "T", "T">>
LON == <<"L", "O", "N">>
EDGG == <<"E", "D", "G", "G">>
EDGGX == <<"E", "D", "G", "G", "X">>
EGLL_TWR == <<"E", "G", "L", "L", "_", "T", "W", "R">>
EGTT_CTR == <<"E", "G", "T", "T", "_", "C", "T", "R">>
EDGG_CTR == <<"E", "D", "G", "G", "_", "C", "T", "R">>
ZZZZ_TWR == <<"Z", "Z", "Z", "Z", "_", "T", "W", "R">>
EGLL_ATIS == <<"E", "G", "L", "L", "_", "A", "T", "I", "S">>
EGLL_OBS == <<"E", "G", "L", "L", "_", "O", "B", "S">>
EGKK == <<"E", "G", "K", "K">>
EGPX == <<"E", "G", "P", "X">>
LFFF == <<"L", "F", "F", "F">>
ZZZZ == <<"Z", "Z", "Z", "Z">>
LON_S == <<"L", "O", "N", "_", "S">>
LON_SC == <<"L", "O", "N", "_", "S", "C">>
LHR_TWR == <<"L", "H", "R", "_", "T", "W", "R">>
EGKK_TWR == <<"E", "G", "K", "K", "_", "T", "W", "R">>
LON_CTR == <<"L", "O", "N", "_", "C", "T", "R">>
LON_S_CTR == <<"L", "O", "N", "_", "S", "_", "C", "T", "R">>
LON_SC_CTR == <<"L", "O", "N", "_", "S", "C", "_", "C", "T", "R">>
EDGGX_CTR == <<"E", "D", "G", "G", "X", "_", "C", "T", "R">>
BAW1 == <<"B", "A", "W", "1">>
DLH2 == <<"D", "L", "H", "2">>

\* The loaded reference dataset (Data._countries, _airports, _firs).  The
\* second FIR matched no feature of the boundary dataset: FIR.parse keeps
\* it with boundaries = None.
Countries == <<
    [name |-> "Germany", code |-> <<"E", "D">>, custom_control_name |-> None],
    [name |-> "United Kingdom", code |-> <<"E", "G">>,
     custom_control_name |-> Some("Control")] >>

Airports == <<
    [icao |-> EGLL, name |-> "Heathrow", latitude |-> 51, longitude |-> 0,
     iata |-> Some(LHR)] >>

FIRs == <<
    [icao |-> EGTT, name |-> "London", prefix |-> LON,
     boundaries |-> Some([center |-> [lat |-> 52, lng |-> 1]])],
    [icao |-> EDGG, name |-> "Langen", prefix |-> EDGGX,
     boundaries |-> None] >>

\* The runway catalog: airport code -> runway idents.
RunwayMap == [a \in {EGLL} |-> {"09L", "27R"}]

\* Records of the feed's controllers, atis and pilots lists.
CtrlPool == {
    [callsign |-> EGLL_TWR, facility |-> 4],
    [callsign |-> EGTT_CTR, facility |-> 6],
    [callsign |-> EDGG_CTR, facility |-> 6],
    [callsign |-> ZZZZ_TWR, facility |-> 4],
    [callsign |-> EGLL_OBS, facility |-> 0] }

AtisPool == { [callsign |-> EGLL_ATIS, facility |-> 4] }

PilotPool == { BAW1, DLH2 }

\* The feed's document.  process() reads general.update_timestamp and
\* pilots first (lines 393, 398) and the controllers and atis lists only
\* once the pilots are stored (lines 403-404), to hand them to
\* store_controllers: the model draws each part where the code reads it.
SnapshotHeads ==
    [version : Versions, pilots : SeqsUpTo(PilotPool, MaxPilots)]

ControllerLists == SeqsUpTo(CtrlPool, MaxCtrls)

AtisLists == SeqsUpTo(AtisPool, MaxAtis)

NoData == [version |-> 0, pilots |-> <<>>, lists |-> None]

(***************************************************************************)
(* vsfetch/fixed.py: the indexes of Data.build_indexes and the lookups.    *)
(* Python list indexes start at 0: PyIdx(i) is the Python index of the     *)
(* i-th element of a sequence.                                             *)
(***************************************************************************)
Min(S) == CHOOSE x \in S : \A y \in S : x <= y
Max(S) == CHOOSE x \in S : \A y \in S : x >= y

PyIdx(i) == i - 1

\* callsign.split("_")[0]
StationCode(callsign) ==
    LET us == {i \in 1..Len(callsign) : callsign[i] = "_"}
    IN  IF us = {} THEN callsign ELSE SubSeq(callsign, 1, Min(us) - 1)

\* s[:n]
Left(s, n) == SubSeq(s, 1, IF n < Len(s) THEN n ELSE Len(s))

\* Data(countries, airports, firs): the lists of a parsed reference file.
Data(countries, airports, firs) ==
    [countries |-> countries, airports |-> airports, firs |-> firs]

\* The file at FIXED_DATA_URL, parsed.
ReferenceFile == Data(Countries, Airports, FIRs)

\* Data.parse of a text without any section line: no record is read.
EmptyData == Data(<<>>, <<>>, <<>>)

\* _airport_icao_idx.get(code): the positions of the airports with that
\* ICAO code, None when the index has no such key.
airport_icao_idx(d, code) ==
    LET s == {i \in 1..Len(d.airports) : d.airports[i].icao = code}
    IN  IF s = {} THEN None ELSE Some(s)

\* _airport_iata_idx.get(code): built only from airports with an IATA code.
airport_iata_idx(d, code) ==
    LET s == {i \in 1..Len(d.airports) :
                 d.airports[i].iata # None /\ d.airports[i].iata[1] = code}
    IN  IF s = {} THEN None ELSE Some(s)

fir_icao_idx(d, code) ==
    LET s == {i \in 1..Len(d.firs) : d.firs[i].icao = code}
    IN  IF s = {} THEN None ELSE Some(s)

\* _fir_prefix_idx.get(code): one position per prefix, the last one wins.
fir_prefix_idx(d, code) ==
    LET s == {i \in 1..Len(d.firs) : d.firs[i].prefix = code}
    IN  IF s = {} THEN None ELSE Some(Max(s))

\* _country_idx.get(code): the Python index of the last country with the code.
country_idx(d, code) ==
    LET s == {i \in 1..Len(d.countries) : d.countries[i].code = code}
    IN  IF s = {} THEN None ELSE Some(PyIdx(Max(s)))

\* The ICAO index is consulted first whatever the length of the code.
find_airport_icao_first(d, callsign) ==
    LET code == StationCode(callsign)
        idxs == IF airport_icao_idx(d, code) # None
                THEN airport_icao_idx(d, code)
                ELSE airport_iata_idx(d, code)
    IN  IF idxs = None THEN None ELSE Some(d.airports[Min(idxs[1])])

\* Lines 222-233.
find_airport_by_ctrl(d, callsign) ==
    LET code == StationCode(callsign)
        idxs == IF Len(code) < 4
                THEN airport_iata_idx(d, code)
                ELSE IF airport_icao_idx(d, code) # None
                     THEN airport_icao_idx(d, code)
                     ELSE airport_iata_idx(d, code)
    IN  IF idxs = None THEN None ELSE Some(d.airports[Min(idxs[1])])

\* The radio-prefix search goes down to a single character.
FirPrefixHitsAnyLength(d, callsign) ==
    {i \in 1..Len(callsign) : fir_prefix_idx(d, Left(callsign, i)) # None}

\* The radio-prefix search: callsign[:i] for i = len(callsign) down to 5.
FirPrefixHits(d, callsign) ==
    {i \in 5..Len(callsign) : fir_prefix_idx(d, Left(callsign, i)) # None}

find_fir_by_ctrl(d, callsign) ==
    LET idxs == fir_icao_idx(d, StationCode(callsign))
    IN  IF idxs # None
        THEN Some(d.firs[Min(idxs[1])])
        ELSE IF FirPrefixHits(d, callsign) = {}
             THEN None
             ELSE Some(d.firs[fir_prefix_idx(
                            d, Left(callsign, Max(FirPrefixHits(d, callsign))))[1]])

\* `if idx:` is false for None and for the index 0.
find_country_by_icao(d, icao) ==
    LET idx == country_idx(d, Left(icao, 2))
    IN  IF idx # None /\ idx[1] # 0 THEN Some(d.countries[idx[1] + 1]) ELSE None

\* Records a reference file may hold besides those of ReferenceFile: an
\* airport whose ICAO code has three characters and no IATA code, one whose
\* IATA field is another airport's ICAO code, a second airport and a second
\* FIR under a code already taken, FIRs with radio prefixes of five and six
\* characters, a third country.
AirportPool == {
    Airports[1],
    [icao |-> LHR, name |-> "Strip", latitude |-> 10, longitude |-> 10,
     iata |-> None],
    [icao |-> EGKK, name |-> "Gatwick", latitude |-> 51, longitude |-> 0,
     iata |-> Some(EGLL)],
    [icao |-> EGLL, name |-> "Heathrow North", latitude |-> 52, longitude |-> 0,
     iata |-> Some(LHR)] }

FirPool == {
    FIRs[1],
    FIRs[2],
    [icao |-> EGTT, name |-> "London South", prefix |-> LON_S,
     boundaries |-> Some([center |-> [lat |-> 51, lng |-> 0]])],
    [icao |-> EGPX, name |-> "Scottish", prefix |-> LON_SC,
     boundaries |-> Some([center |-> [lat |-> 56, lng |-> -4]])] }

CountryPool == {
    Countries[1],
    Countries[2],
    [name |-> "France", code |-> <<"L", "F">>, custom_control_name |-> None] }

\* The parsed reference files the lookups are applied to: each varies one
\* list of ReferenceFile, the list the lookup reads.
Datasets ==
    {Data(Countries, a, FIRs) : a \in SeqsUpTo(AirportPool, MaxAirports)}
    \cup {Data(Countries, Airports, f) : f \in SeqsUpTo(FirPool, MaxFirs)}
    \cup {Data(c, Airports, FIRs) : c \in SeqsUpTo(CountryPool, MaxCountries)}

\* Callsigns of controllers and ICAO codes of FIRs handed to the lookups.
AirportCallsigns == {EGLL_TWR, LHR_TWR, EGKK_TWR, ZZZZ_TWR, LHR, EGLL_ATIS}

FirCallsigns ==
    {EGTT_CTR, EDGG_CTR, LON_CTR, LON_S_CTR, LON_SC_CTR, EDGGX_CTR, EDGGX}

IcaoCodes == {EDGG, EGTT, LFFF, ZZZZ}

\* vsfetch/ourairports.py
find_airport_runways(icao) ==
    IF icao \in DOMAIN RunwayMap THEN Some(RunwayMap[icao]) ELSE None


(***************************************************************************)
(* vsfetch/dynamic.py: the models and store_controllers.                   *)
(***************************************************************************)
\* Controller(**ctrl): human_readable defaults to None.
Controller(rec) ==
    [callsign |-> rec.callsign, facility |-> rec.facility, human_readable |-> None]

\* StoredController: the controller's fields and a position.
StoredController(ctrl, lat, lng) ==
    [callsign |-> ctrl.callsign, facility |-> ctrl.facility,
     human_readable |-> ctrl.human_readable,
     position |-> [lat |-> lat, lng |-> lng]]

AirportControllerSet ==
    [atis |-> None, delivery |-> None, ground |-> None, tower |-> None,
     approach |-> None]

\* Airport(**f_arpt.model_dump()): no controllers, no runways.
NewAirport(f_arpt) ==
    [icao |-> f_arpt.icao, name |-> f_arpt.name, latitude |-> f_arpt.latitude,
     longitude |-> f_arpt.longitude, controllers |-> AirportControllerSet,
     runways |-> {}]

\* FIR(**f_fir.model_dump()): an empty controllers mapping.
NewFIR(f_fir) ==
    [icao |-> f_fir.icao, name |-> f_fir.name, prefix |-> f_fir.prefix,
     boundaries |-> f_fir.boundaries, controllers |-> <<>>]

\* The match over ctrl.facility: the slot and the role name.
SlotOf(facility) ==
    CASE facility = 2 -> "delivery"
      [] facility = 3 -> "ground"
      [] facility = 4 -> "tower"
      [] facility = 5 -> "approach"

RoleName(facility) ==
    CASE facility = 2 -> "Delivery"
      [] facility = 3 -> "Ground"
      [] facility = 4 -> "Tower"
      [] facility = 5 -> "Approach"

\* dict.get(key, default)
DictGet(d, key, default) == IF key \in DOMAIN d THEN d[key] ELSE default

\* d[key] = value
DictSet(d, key, value) == (key :> value) @@ d

\* The state of store_controllers while it walks the lists: its three
\* dicts, the two module caches, and how it left when it raised
\* ("load": a reference dataset could not be fetched, "type": a value that
\* is no awaitable was awaited, "attr": an attribute of None was read).
ScInit(fixed, runways) ==
    [airports |-> <<>>, firs |-> <<>>, pure_ctrls |-> <<>>,
     fixed |-> fixed, runways |-> runways, raised |-> "no"]

\* Data.load (fixed.py 182-186): requests.get returned a response and its
\* text was parsed.  The status of the response is not looked at: the text
\* of an error page has no section line, and Data.parse reads no record
\* from it.
LoadedData(fixedLoad) == IF fixedLoad = "ok" THEN ReferenceFile ELSE EmptyData

\* get_fixed_data(): loads the dataset when the cache is unset.  The load
\* raises when requests.get raises, when a record does not parse or when
\* the boundaries cannot be loaded; _data is assigned only when it returns.
GetFixedData(st, fixedLoad) ==
    IF st.fixed # None THEN st
    ELSE IF fixedLoad = "raise" THEN [st EXCEPT !.raised = "load"]
    ELSE [st EXCEPT !.fixed = Some(LoadedData(fixedLoad))]

\* The Data instance get_fixed_data() returned.
DataOf(st) == IF st.fixed = None THEN EmptyData ELSE st.fixed[1]

\* ourairports.get_data(), reached through find_airport_runways.
GetRunwayData(st, runwayOk) ==
    IF st.runways THEN st
    ELSE IF runwayOk THEN [st EXCEPT !.runways = TRUE]
    ELSE [st EXCEPT !.raised = "load"]

\* `await x` with x the value of a plain function: fixed.get_data and
\* ourairports.find_airport_runways are defined with `def`, so the call
\* runs (and loads its dataset) and the await of what it returned raises
\* TypeError.
Await(st) == IF st.raised = "no" THEN [st EXCEPT !.raised = "type"] ELSE st

\* ctrl.human_readable = f"{name} {role}"
Labelled(ctrl, name, role) == [ctrl EXCEPT !.human_readable = Some(<<name, role>>)]

\* Lines 281-283: `if runways:` attaches the catalog's runways.
WithRunways(arpt, rw) ==
    IF rw # None /\ rw[1] # {} THEN [arpt EXCEPT !.runways = rw[1]] ELSE arpt

\* arpt.controllers.<slot> = ctrl; airports[arpt.icao] = arpt;
\* pure_ctrls[ctrl.callsign] = StoredController(position = the airport's).
PutAirportCtrl(st, arpt, slot, c) ==
    [st EXCEPT
       !.airports = DictSet(@, arpt.icao, [arpt EXCEPT !.controllers[slot] = Some(c)]),
       !.pure_ctrls = DictSet(@, c.callsign,
                              StoredController(c, arpt.latitude, arpt.longitude))]

\* Lines 285-304: the match over the facility.
TowerAssign(st, ctrl, arpt) ==
    PutAirportCtrl(st, arpt, SlotOf(ctrl.facility),
                   Labelled(ctrl, arpt.name, RoleName(ctrl.facility)))

\* Lines 279-283, once the runway catalog is loaded (or has failed to load).
TowerResolved(st, ctrl, f_arpt) ==
    IF st.raised # "no" THEN st
    ELSE TowerAssign(st, ctrl,
                     WithRunways(DictGet(st.airports, f_arpt.icao, NewAirport(f_arpt)),
                                 find_airport_runways(f_arpt.icao)))

\* Lines 275-280: an unresolved callsign is skipped.
TowerLookup(st, ctrl, f_arpt, runwayOk) ==
    IF st.raised # "no" \/ f_arpt = None THEN st
    ELSE TowerResolved(Await(GetRunwayData(st, runwayOk)), ctrl, f_arpt[1])

\* Lines 273-304: a controller of facility 2..5.
TowerStep(st, ctrl, fixedLoad, runwayOk) ==
    TowerLookup(Await(GetFixedData(st, fixedLoad)), ctrl,
                find_airport_by_ctrl(DataOf(GetFixedData(st, fixedLoad)),
                                     ctrl.callsign),
                runwayOk)

\* Lines 313-318: "Radar", or the custom control name of the country.
ControlName(country) ==
    IF country # None /\ country[1].custom_control_name # None
    THEN country[1].custom_control_name[1] ELSE "Radar"

\* Lines 322-328: fir.controllers[callsign] = ctrl; firs[fir.icao] = fir;
\* then fir.boundaries.center, which raises AttributeError when the FIR
\* has no boundaries.
PutFirCtrl(st, fir, c) ==
    IF fir.boundaries = None
    THEN [st EXCEPT
            !.firs = DictSet(@, fir.icao, [fir EXCEPT !.controllers = DictSet(@, c.callsign, c)]),
            !.raised = "attr"]
    ELSE [st EXCEPT
            !.firs = DictSet(@, fir.icao, [fir EXCEPT !.controllers = DictSet(@, c.callsign, c)]),
            !.pure_ctrls = DictSet(@, c.callsign,
                               StoredController(c, fir.boundaries[1].center.lat,
                                                fir.boundaries[1].center.lng))]

\* Lines 312-328, with the await of line 315.
FirAssign(st, ctrl, fir) ==
    IF Await(st).raised # "no" THEN Await(st)
    ELSE PutFirCtrl(st, fir,
                    Labelled(ctrl, fir.name,
                             ControlName(find_country_by_icao(DataOf(st), fir.icao))))

\* Lines 308-312: an unresolved callsign is skipped.
FirLookup(st, ctrl, f_fir) ==
    IF st.raised # "no" \/ f_fir = None THEN st
    ELSE FirAssign(st, ctrl, DictGet(st.firs, f_fir[1].icao, NewFIR(f_fir[1])))

\* Lines 306-328: a controller of facility 6.
FirStep(st, ctrl, fixedLoad) ==
    FirLookup(Await(GetFixedData(st, fixedLoad)), ctrl,
              find_fir_by_ctrl(DataOf(GetFixedData(st, fixedLoad)), ctrl.callsign))

\* Every record outside the tower family is taken for a FIR controller.
CtrlStepElseFir(st, ctrl, fixedLoad, runwayOk) ==
    IF 2 <= ctrl.facility /\ ctrl.facility <= 5
    THEN TowerStep(st, ctrl, fixedLoad, runwayOk)
    ELSE FirStep(st, ctrl, fixedLoad)

\* Lines 272-330: one record of the controllers list.
CtrlStep(st, ctrl, fixedLoad, runwayOk) ==
    IF 2 <= ctrl.facility /\ ctrl.facility <= 5
    THEN TowerStep(st, ctrl, fixedLoad, runwayOk)
    ELSE IF ctrl.facility = 6 THEN FirStep(st, ctrl, fixedLoad)
    ELSE st

\* Lines 339-347.
AtisAssign(st, ctrl, arpt) ==
    PutAirportCtrl(st, arpt, "atis", Labelled(ctrl, arpt.name, "ATIS"))

\* Lines 335-339: an unresolved callsign is skipped.
AtisLookup(st, ctrl, f_arpt) ==
    IF st.raised # "no" \/ f_arpt = None THEN st
    ELSE AtisAssign(st, ctrl,
                    DictGet(st.airports, f_arpt[1].icao, NewAirport(f_arpt[1])))

\* Lines 332-347: one record of the atis list; its facility is forced to 1.
AtisStep(st, ctrl, fixedLoad) ==
    AtisLookup(Await(GetFixedData(st, fixedLoad)), [ctrl EXCEPT !.facility = 1],
               find_airport_by_ctrl(DataOf(GetFixedData(st, fixedLoad)),
                                    ctrl.callsign))

RECURSIVE CtrlLoop(_, _, _, _, _)
CtrlLoop(st, ctrls, i, fixedLoad, runwayOk) ==
    IF i > Len(ctrls) \/ st.raised # "no" THEN st
    ELSE CtrlLoop(CtrlStep(st, Controller(ctrls[i]), fixedLoad, runwayOk),
                  ctrls, i + 1, fixedLoad, runwayOk)

RECURSIVE AtisLoop(_, _, _, _)
AtisLoop(st, atis, i, fixedLoad) ==
    IF i > Len(atis) \/ st.raised # "no" THEN st
    ELSE AtisLoop(AtisStep(st, Controller(atis[i]), fixedLoad), atis, i + 1, fixedLoad)

\* Lines 266-347: the dicts store_controllers has built when it reaches
\* its first POST, or the way it raised before.
BuildControllers(ctrls, atis, fixed, runways, fixedLoad, runwayOk) ==
    AtisLoop(CtrlLoop(ScInit(fixed, runways), ctrls, 1, fixedLoad, runwayOk),
             atis, 1, fixedLoad)

(***************************************************************************)
(* Keys and values of the versioned store.                                 *)
(***************************************************************************)
Prefixes == {"pilot:", "airport:", "fir:", "ctrl:"}

\* f"{prefix}{id}"
Key(prefix, id) == <<prefix, id>>

\* versioned_object(version): the entity with the version of the cycle.
VersionedObject(obj, ver) == [data |-> obj, version |-> ver]

\* {f"{prefix}{id}": d[id].versioned_object(version) for id in d}
ObjectMap(prefix, d, ver) ==
    [k \in {Key(prefix, id) : id \in DOMAIN d} |-> VersionedObject(d[k[2]], ver)]

\* Lines 226-228: the pilots keyed by callsign.
PilotMap(pilots, ver) ==
    [k \in {Key("pilot:", pilots[i]) : i \in 1..Len(pilots)} |->
        VersionedObject([callsign |-> k[2]], ver)]

\* The versioned store is a service of its own: when the program starts it
\* holds nothing, or the keys an earlier run left in it.
InitialStores ==
    {{}, {Key("airport:", EGLL), Key("fir:", EGTT), Key("ctrl:", EGLL_TWR)}}

\* GET /api/v1/keys/?prefix=<prefix>
KeysWithPrefix(keys, prefix) == {k \in keys : k[1] = prefix}


(***************************************************************************)
(* vsfetch/dynamic.py: process, delete_old_keys and loop.                  *)
(***************************************************************************)
Idle == <<"idle">>

\* Python truth of an Optional[int]: None and 0 are false.
Truthy(opt) == opt # None /\ opt[1] # 0

\* Line 394: `if prev_version and version <= prev_version`.
IsStale(prev_version, ver) == Truthy(prev_version) /\ ver <= prev_version[1]

\* Every key the store returned is removed.
KeysToRemoveAll(keys, new_keys) == keys

\* No key is ever removed.
KeysToRemoveNone(keys, new_keys) == {}

\* Line 250: keys.difference(new_keys).
KeysToRemove(keys, new_keys) == keys \ new_keys

\* The loop schedules process() without awaiting it.
CanStartWithoutAwait == TRUE

\* Line 415: the loop awaits process() before it goes round again.
CanStart == pc = Idle

\* The except branch forgets the retained version.
OnExceptionForget ==
    [pc |-> Idle, version |-> None, delay |-> 10, branch |-> "backoff"]

\* The exception leaves the loop.
OnExceptionStop ==
    [pc |-> <<"stopped">>, version |-> version, delay |-> 0, branch |-> "backoff"]

\* Lines 416-419: what the loop does with an exception of process().
OnException ==
    [pc |-> Idle, version |-> version, delay |-> 10, branch |-> "backoff"]

\* Lines 421-427: what the loop does with the value process() returned.
OnReturn(new_version) ==
    IF new_version = version
    THEN [pc |-> Idle, version |-> version, delay |-> 3, branch |-> "nonew"]
    ELSE [pc |-> Idle, version |-> new_version, delay |-> 10, branch |-> "processed"]

\* A request to the track store or to the versioned store.
Entry(op, prefix, keys, ver, ok) ==
    [op |-> op, prefix |-> prefix, keys |-> keys, version |-> ver, ok |-> ok]

Call(e) == <<e.op, e.prefix>>

\* A request that has changed the versioned store.
IsWrite(e) == e.ok /\ e.op \in {"POST", "DELETE"} /\ e.prefix # "track"

Wrote(l) == \E i \in 1..Len(l) : IsWrite(l[i])

Failed(l) == {Call(l[i]) : i \in {j \in 1..Len(l) : ~l[j].ok}}

Issued(l) == {Call(l[i]) : i \in {j \in 1..Len(l) : l[j].ok}}

NoMaps == [p \in Prefixes |-> <<>>]

NoStart == [version |-> None, store |-> {}]

\* No cycle has ended since the loop last called process().
NoOutcome ==
    [exit |-> "none", branch |-> "none", cause |-> "none", fetched |-> None,
     prev |-> None, failed |-> {}, lists |-> None]

\* The cycle ends: the loop has chosen its sleep (r) after process()
\* returned (exit "skip": line 396, "done": line 408) or raised (exit
\* "raise").  The locals of process() are gone; outcome keeps the version
\* the cycle fetched, the retained version it began with, the requests of
\* log l that failed, the controllers and atis lists it read (None when it
\* did not get there or when they are not recorded), and why process()
\* raised ("network", "parse", "type", "attr").
EndCycleWith(exit, cause, fetched, r, l, otherfailed, lists) ==
    /\ pc' = r.pc
    /\ version' = r.version
    /\ delay' = r.delay
    /\ inflight' = inflight - 1
    /\ outcome' = [exit |-> exit, branch |-> r.branch, cause |-> cause,
                   fetched |-> fetched, prev |-> start.version,
                   failed |-> Failed(l) \cup otherfailed, lists |-> lists]
    /\ lastwrite' = IF "writes" \in history /\ Wrote(l) THEN fetched ELSE lastwrite
    /\ log' = <<>>
    /\ data' = NoData
    /\ maps' = NoMaps
    /\ existing' = {}
    /\ start' = NoStart
    /\ UNCHANGED history

EndCycle(exit, cause, fetched, r, l, otherfailed) ==
    EndCycleWith(exit, cause, fetched, r, l, otherfailed, data.lists)

\* An exception leaves process(): the except branch of the loop.
Raise(cause, fetched, l, otherfailed) ==
    EndCycle("raise", cause, fetched, OnException, l, otherfailed)

\* process() returns new_version; its locals are still in the state.
Return(exit, new_version, l, keys) ==
    /\ pc' = <<"return", exit, new_version>>
    /\ log' = l
    /\ existing' = keys
    /\ UNCHANGED <<version, inflight, maps, delay, outcome, start,
                   history, lastwrite>>

\* No lookup of fixed.Data has been called on its own.
NoLookup == [fn |-> "none", arg |-> <<>>, result |-> None]

Init ==
    /\ version = None
    /\ pc = Idle
    /\ inflight = 0
    /\ data = NoData
    /\ maps = NoMaps
    /\ existing = {}
    /\ store \in InitialStores
    /\ fixed_data = None
    /\ runway_data = FALSE
    /\ delay = 0
    /\ outcome = NoOutcome
    /\ log = <<>>
    /\ start = NoStart
    /\ history = {}
    /\ lastwrite = None
    /\ lookup = NoLookup

\* The same, with the versions written to the store recorded.
InitHistory ==
    /\ version = None
    /\ pc = Idle
    /\ inflight = 0
    /\ data = NoData
    /\ maps = NoMaps
    /\ existing = {}
    /\ store \in InitialStores
    /\ fixed_data = None
    /\ runway_data = FALSE
    /\ delay = 0
    /\ outcome = NoOutcome
    /\ log = <<>>
    /\ start = NoStart
    /\ history = {"writes"}
    /\ lastwrite = None
    /\ lookup = NoLookup

\* The same, with the controllers and atis lists of each cycle recorded.
InitLists ==
    /\ version = None
    /\ pc = Idle
    /\ inflight = 0
    /\ data = NoData
    /\ maps = NoMaps
    /\ existing = {}
    /\ store \in InitialStores
    /\ fixed_data = None
    /\ runway_data = FALSE
    /\ delay = 0
    /\ outcome = NoOutcome
    /\ log = <<>>
    /\ start = NoStart
    /\ history = {"lists"}
    /\ lastwrite = None
    /\ lookup = NoLookup

\* Line 415: the sleep is over and the loop calls process(version).
Begin ==
    /\ CanStart
    /\ pc' = <<"fetch">>
    /\ inflight' = inflight + 1
    /\ data' = NoData
    /\ maps' = NoMaps
    /\ existing' = {}
    /\ log' = <<>>
    /\ start' = [version |-> version, store |-> store]
    /\ delay' = 0
    /\ outcome' = NoOutcome
    /\ UNCHANGED <<version, store, fixed_data, runway_data, history, lastwrite,
                   lookup>>

\* Lines 391-398: the snapshot GET, the version and the skip.
Fetch ==
    /\ pc = <<"fetch">>
    /\ \/ \* the GET fails
          Raise("network", None, log, {<<"GET", "feed">>})
       \/ \* the document has no parsable update_timestamp, or a record of
          \* its pilots is no Pilot
          Raise("parse", None, log, {})
       \/ \E d \in SnapshotHeads :
            /\ data' = [NoData EXCEPT !.version = d.version, !.pilots = d.pilots]
            /\ IF IsStale(version, d.version)
               THEN Return("skip", version, log, existing)
               ELSE /\ pc' = <<"store_track">>
                    /\ UNCHANGED <<version, inflight, maps, existing, delay,
                                   outcome, log, start, history, lastwrite>>
    /\ UNCHANGED <<store, fixed_data, runway_data, lookup>>

\* Lines 209-221: a failure of the track POST is logged and swallowed.
StoreTrack ==
    /\ pc = <<"store_track">>
    /\ \E ok \in BOOLEAN :
         log' = Append(log, Entry("POST", "track", {}, data.version, ok))
    /\ pc' = <<"store_pilots">>
    /\ UNCHANGED <<version, inflight, data, maps, existing, store, fixed_data,
                   runway_data, delay, outcome, start, history, lastwrite, lookup>>

\* store_pilots reconciles the pilot keys whether or not its POST succeeded.
AfterPilotPostAlways(ok) == <<"keys", "pilot:">>

\* Lines 232-240: store_pilots returns from its except branch, and calls
\* delete_old_keys only after a POST that succeeded.
AfterPilotPost(ok) ==
    IF ok THEN <<"keys", "pilot:">> ELSE <<"store_controllers">>

\* Lines 224-240: the pilot upsert; its failure is logged and swallowed and
\* the pilot keys are then not reconciled.  process() does not read its
\* pilots list again after line 401.
StorePilots ==
    /\ pc = <<"store_pilots">>
    /\ LET object_map == PilotMap(data.pilots, data.version)
       IN  /\ maps' = [maps EXCEPT !["pilot:"] = object_map]
           /\ \E ok \in BOOLEAN :
                /\ log' = Append(log, Entry("POST", "pilot:", DOMAIN object_map,
                                            data.version, ok))
                /\ store' = IF ok THEN store \cup DOMAIN object_map ELSE store
                /\ pc' = AfterPilotPost(ok)
    /\ data' = [data EXCEPT !.pilots = <<>>]
    /\ UNCHANGED <<version, inflight, existing, fixed_data, runway_data, delay,
                   outcome, start, history, lastwrite, lookup>>

\* What follows delete_old_keys(prefix, ...) in its caller.
AfterDelete(prefix) ==
    CASE prefix = "pilot:" -> <<"store_controllers">>
      [] prefix = "airport:" -> <<"keys", "fir:">>
      [] prefix = "fir:" -> <<"keys", "ctrl:">>
      [] prefix = "ctrl:" -> <<"return", "done", Some(data.version)>>

\* The cycle goes on at `next` (process() returns its version at line 408).
Continue(next, l, keys) ==
    /\ pc' = next
    /\ log' = l
    /\ existing' = keys
    /\ UNCHANGED <<version, inflight, data, maps, delay, outcome, start,
                   history, lastwrite>>

\* Lines 243-254: the keys GET of delete_old_keys and the stale set.
GetKeys(prefix) ==
    /\ pc = <<"keys", prefix>>
    /\ \/ Raise("network", Some(data.version),
                Append(log, Entry("GET", prefix, {}, data.version, FALSE)), {})
       \/ LET keys == KeysWithPrefix(store, prefix)
              l == Append(log, Entry("GET", prefix, keys, data.version, TRUE))
          IN  IF KeysToRemove(keys, DOMAIN maps[prefix]) # {}
              THEN Continue(<<"delete", prefix>>, l, keys)
              ELSE Continue(AfterDelete(prefix), l, {})
    /\ UNCHANGED <<store, fixed_data, runway_data, lookup>>

\* Lines 254-263: the DELETE of the stale keys, with the cycle's version.
DeleteKeys(prefix) ==
    /\ pc = <<"delete", prefix>>
    /\ LET keys_to_remove == KeysToRemove(existing, DOMAIN maps[prefix])
       IN  \/ /\ Raise("network", Some(data.version),
                       Append(log, Entry("DELETE", prefix, keys_to_remove,
                                         data.version, FALSE)), {})
              /\ UNCHANGED store
           \/ /\ store' = store \ keys_to_remove
              /\ Continue(AfterDelete(prefix),
                          Append(log, Entry("DELETE", prefix, keys_to_remove,
                                            data.version, TRUE)), {})
    /\ UNCHANGED <<fixed_data, runway_data, lookup>>

\* How a fetch of a reference dataset may end in this cycle; nothing is
\* fetched when the cache is set.
LoadResults(loaded) == IF loaded THEN {TRUE} ELSE BOOLEAN

\* How Data.load may end when get_data() finds fixed._data unset: the file
\* is read ("ok"), the server answers with an error page, or the load
\* raises.
FixedLoadResults(cache) ==
    IF cache # None THEN {"cached"} ELSE {"ok", "error_page", "raise"}

\* The lists a cycle read, when they are recorded.
Recorded(ctrls, atis) ==
    IF "lists" \in history
    THEN Some([controllers |-> ctrls, atis |-> atis]) ELSE None

\* Lines 403-404 and 266-362: the controllers and atis lists are read (a
\* record that is no Controller makes process() raise), and
\* store_controllers resolves the records and builds its three maps.  A
\* reference dataset that cannot be loaded, the await of a loaded one and a
\* FIR without boundaries make it raise.
StoreControllers ==
    /\ pc = <<"store_controllers">>
    /\ \/ /\ Raise("parse", Some(data.version), log, {})
          /\ UNCHANGED <<fixed_data, runway_data>>
       \/ \E ctrls \in ControllerLists, atis \in AtisLists,
             fixedLoad \in FixedLoadResults(fixed_data),
             runwayOk \in LoadResults(runway_data) :
            LET st == BuildControllers(ctrls, atis, fixed_data, runway_data,
                                       fixedLoad, runwayOk)
            IN  /\ fixed_data' = st.fixed
                /\ runway_data' = st.runways
                /\ IF st.raised # "no"
                   THEN EndCycleWith("raise",
                            IF st.raised = "load" THEN "network" ELSE st.raised,
                            Some(data.version), OnException, log,
                            IF st.raised = "load"
                            THEN {<<"GET", "reference">>} ELSE {},
                            Recorded(ctrls, atis))
                   ELSE /\ maps' = [maps EXCEPT
                              !["airport:"] = ObjectMap("airport:", st.airports, data.version),
                              !["fir:"] = ObjectMap("fir:", st.firs, data.version),
                              !["ctrl:"] = ObjectMap("ctrl:", st.pure_ctrls, data.version)]
                        /\ data' = [data EXCEPT !.lists = Recorded(ctrls, atis)]
                        /\ pc' = <<"post", "airport:">>
                        /\ UNCHANGED <<version, inflight, existing, delay,
                                       outcome, log, start, history, lastwrite>>
    /\ UNCHANGED <<store, lookup>>

\* store_controllers begins its reconciliation with the fir: namespace.
AfterPostSkipAirport(prefix) ==
    CASE prefix = "airport:" -> <<"post", "fir:">>
      [] prefix = "fir:" -> <<"post", "ctrl:">>
      [] prefix = "ctrl:" -> <<"keys", "fir:">>

\* What follows the upsert POST of a map in store_controllers.
AfterPost(prefix) ==
    CASE prefix = "airport:" -> <<"post", "fir:">>
      [] prefix = "fir:" -> <<"post", "ctrl:">>
      [] prefix = "ctrl:" -> <<"keys", "airport:">>

\* Lines 364-376: the upsert POSTs of the airport, fir and ctrl maps.
PostObjects(prefix) ==
    /\ pc = <<"post", prefix>>
    /\ \/ /\ Raise("network", Some(data.version),
                   Append(log, Entry("POST", prefix, DOMAIN maps[prefix],
                                     data.version, FALSE)), {})
          /\ UNCHANGED store
       \/ /\ store' = store \cup DOMAIN maps[prefix]
          /\ Continue(AfterPost(prefix),
                      Append(log, Entry("POST", prefix, DOMAIN maps[prefix],
                                        data.version, TRUE)), {})
    /\ UNCHANGED <<fixed_data, runway_data, lookup>>

\* Lines 421-427: the loop compares the returned version with the one it
\* retains, keeps the new one and sleeps.
LoopReturn ==
    /\ pc[1] = "return"
    /\ EndCycle(pc[2], "none", Some(data.version), OnReturn(pc[3]), log, {})
    /\ UNCHANGED <<store, fixed_data, runway_data, lookup>>

Next ==
    \/ Begin
    \/ Fetch
    \/ StoreTrack
    \/ StorePilots
    \/ \E prefix \in Prefixes : GetKeys(prefix)
    \/ \E prefix \in Prefixes : DeleteKeys(prefix)
    \/ StoreControllers
    \/ \E prefix \in {"airport:", "fir:", "ctrl:"} : PostObjects(prefix)
    \/ LoopReturn

Spec == Init /\ [][Next]_vars

\* The loop with the history of the store's writes recorded.
SpecHistory == InitHistory /\ [][Next]_vars

\* The loop with the lists of each cycle recorded.
SpecLists == InitLists /\ [][Next]_vars

\* The event loop runs the one task whenever it can take a step.
FairSpec == Spec /\ WF_vars(Next)

(***************************************************************************)
(* The lookups of fixed.Data on their own: a reference file has been       *)
(* loaded (fixed._data is set) and a lookup is called on it.               *)
(***************************************************************************)
InitLookup ==
    /\ version = None
    /\ pc = Idle
    /\ inflight = 0
    /\ data = NoData
    /\ maps = NoMaps
    /\ existing = {}
    /\ store = {}
    /\ fixed_data \in {Some(d) : d \in Datasets}
    /\ runway_data = FALSE
    /\ delay = 0
    /\ outcome = NoOutcome
    /\ log = <<>>
    /\ start = NoStart
    /\ history = {}
    /\ lastwrite = None
    /\ lookup = NoLookup

\* A lookup called with arg on the loaded dataset, and what it returned.
Called(fn, arg, result) == [fn |-> fn, arg |-> arg, result |-> result]

\* get_data().find_airport_by_ctrl(ctrl)
FindAirportByCtrl ==
    /\ \E callsign \in AirportCallsigns :
          lookup' = Called("find_airport_by_ctrl", callsign,
                           find_airport_by_ctrl(fixed_data[1], callsign))
    /\ UNCHANGED <<version, pc, inflight, data, maps, existing, store,
                   fixed_data, runway_data, delay, outcome, log, start,
                   history, lastwrite>>

\* get_data().find_fir_by_ctrl(ctrl)
FindFirByCtrl ==
    /\ \E callsign \in FirCallsigns :
          lookup' = Called("find_fir_by_ctrl", callsign,
                           find_fir_by_ctrl(fixed_data[1], callsign))
    /\ UNCHANGED <<version, pc, inflight, data, maps, existing, store,
                   fixed_data, runway_data, delay, outcome, log, start,
                   history, lastwrite>>

\* get_data().find_country_by_icao(fir.icao)
FindCountryByIcao ==
    /\ \E icao \in IcaoCodes :
          lookup' = Called("find_country_by_icao", icao,
                           find_country_by_icao(fixed_data[1], icao))
    /\ UNCHANGED <<version, pc, inflight, data, maps, existing, store,
                   fixed_data, runway_data, delay, outcome, log, start,
                   history, lastwrite>>

NextLookup ==
    \/ FindAirportByCtrl
    \/ FindFirByCtrl
    \/ FindCountryByIcao

SpecLookup == InitLookup /\ [][NextLookup]_vars

(***************************************************************************)
(* Properties of process() and of the loop.                                *)
(***************************************************************************)
\* The cycle in flight has fetched its snapshot: data holds it.
Fetched == pc \notin {Idle, <<"fetch">>}

\* The cycle in flight has returned the version of a snapshot it stored.
Done == pc[1] = "return" /\ pc[2] = "done"

\* The snapshot of the cycle in flight is not newer than the retained version.
NotNewer == start.version # None /\ data.version <= start.version[1]

\* The cycle that ended last fetched a snapshot that was not newer than the
\* version the loop retained when it began.
EndedNotNewer ==
    /\ pc = Idle
    /\ outcome.prev # None
    /\ outcome.fetched # None
    /\ outcome.fetched[1] <= outcome.prev[1]

\* The cycle that ended last fetched a snapshot newer than the version the
\* loop retained (or none was retained).
EndedNewer ==
    /\ pc = Idle
    /\ outcome.fetched # None
    /\ (outcome.prev = None \/ outcome.fetched[1] > outcome.prev[1])

\* C1: a cycle that fetches a version not strictly greater than an existing
\* previous version issues no store call (its log stays empty), returns the
\* previous version and leaves the retained version unchanged.
C1_StaleCycleIssuesNoStoreCall ==
    /\ (Fetched /\ NotNewer) =>
          (log = <<>> /\ pc = <<"return", "skip", start.version>>)
    /\ EndedNotNewer =>
          (outcome.exit = "skip" /\ outcome.branch = "nonew"
             /\ version = outcome.prev)

\* C2: the retained version only ever changes to a strictly greater value,
\* and a cycle is accepted (runs to its end and returns the version it
\* stored) only when its version is strictly greater than the retained one
\* or none is retained.
C2_RetainedVersionStrictlyIncreases ==
    /\ (pc = Idle /\ outcome.prev # None) =>
          /\ version # None
          /\ (version # outcome.prev => version[1] > outcome.prev[1])
    /\ (pc = Idle /\ outcome.exit = "done" /\ outcome.prev # None) =>
          outcome.fetched[1] > outcome.prev[1]

\* C3: when a cycle has written to the store (an upsert or a delete that
\* succeeded) and an earlier cycle wrote too, this cycle's version is strictly
\* greater than the version of the earlier one.
C3_StoreSeesIncreasingVersions ==
    (Wrote(log) /\ lastwrite # None) => data.version > lastwrite[1]

\* The DELETE at position i of the log follows the keys GET of its prefix,
\* carries the keys that GET returned less the current ones, and the version
\* of the cycle.
DeleteIsTheStaleSet(i) ==
    /\ i > 1
    /\ log[i - 1].op = "GET"
    /\ log[i - 1].ok
    /\ log[i - 1].prefix = log[i].prefix
    /\ log[i].keys = log[i - 1].keys \ DOMAIN maps[log[i].prefix]
    /\ log[i].keys # {}
    /\ log[i].keys \cap DOMAIN maps[log[i].prefix] = {}
    /\ log[i].version = data.version
    /\ \A j \in 1..Len(log) :
         (log[j].op = "POST" /\ log[j].prefix = log[i].prefix)
            => log[j].version = log[i].version
    /\ \A j \in 1..Len(log) :
         (log[j].op = "DELETE" /\ log[j].prefix = log[i].prefix) => j = i

\* The keys GET at position i of the log is followed by a DELETE exactly when
\* it returned a key that is not a current one.
DeleteFollowsWhenStale(i) ==
    IF log[i].keys \ DOMAIN maps[log[i].prefix] = {}
    THEN /\ pc # <<"delete", log[i].prefix>>
         /\ \A j \in 1..Len(log) :
              ~(log[j].op = "DELETE" /\ log[j].prefix = log[i].prefix)
    ELSE \/ i = Len(log) /\ pc = <<"delete", log[i].prefix>>
         \/ i < Len(log) /\ log[i + 1].op = "DELETE"
                         /\ log[i + 1].prefix = log[i].prefix

\* C4: delete_old_keys issues exactly one DELETE when the keys the store
\* returned less the current keys is not empty, with exactly those keys (none
\* of them current) and the version of the cycle's upserts, and no DELETE
\* when it is empty.
C4_DeleteOldKeys ==
    \A i \in 1..Len(log) :
       /\ log[i].op = "DELETE" => DeleteIsTheStaleSet(i)
       /\ (log[i].op = "GET" /\ log[i].ok) => DeleteFollowsWhenStale(i)

\* A DELETE was issued for a namespace whose stored keys held both stale keys
\* and current ones.
C4_Witness ==
    \E i \in 2..Len(log) :
       /\ log[i].op = "DELETE"
       /\ log[i].keys # {}
       /\ log[i - 1].keys \cap DOMAIN maps[log[i].prefix] # {}

\* C5: when an accepted cycle ends and none of its calls failed, the store
\* holds under each of the four prefixes exactly the keys the cycle upserted
\* for it.
C5_StoreEqualsUpserted ==
    (Done /\ Failed(log) = {}) =>
       \A prefix \in Prefixes :
          KeysWithPrefix(store, prefix) = DOMAIN maps[prefix]

\* An accepted cycle without a failed call ends; no cycle had been accepted
\* before, and the store had keys of earlier cycles that this one removed.
C5_Witness ==
    /\ Done
    /\ Failed(log) = {}
    /\ start.version = None
    /\ start.store \ store # {}
    /\ store # {}

\* The upsert POST of the prefix succeeded before position i of the log.
UpsertedBefore(i, prefix) ==
    \E j \in 1..(i - 1) :
       log[j].op = "POST" /\ log[j].prefix = prefix /\ log[j].ok

\* C6: the keys GET and the DELETE of a namespace come after the successful
\* upsert POST of that namespace in the same cycle, and a key that was in the
\* store when the cycle began is absent only if its namespace was upserted
\* and the key is not a current one.
C6_ReconcileAfterUpsert ==
    /\ \A i \in 1..Len(log) :
          log[i].op \in {"GET", "DELETE"} => UpsertedBefore(i, log[i].prefix)
    /\ pc[1] \in {"keys", "delete"} => UpsertedBefore(Len(log) + 1, pc[2])
    /\ pc # Idle =>
          \A k \in start.store \ store :
             /\ UpsertedBefore(Len(log) + 1, k[1])
             /\ k \notin DOMAIN maps[k[1]]

\* A namespace was reconciled with a DELETE while a key of it that was stored
\* before the cycle is current, and still stored.
C6_Witness ==
    \E i \in 1..Len(log) :
       /\ log[i].op = "DELETE"
       /\ \E k \in start.store \cap DOMAIN maps[log[i].prefix] : k \in store

\* The calls whose exception leaves process().
FatalCalls ==
    {<<"GET", "feed">>, <<"GET", "reference">>}
      \cup {<<op, prefix>> : op \in {"GET", "DELETE"}, prefix \in Prefixes}
      \cup {<<"POST", prefix>> : prefix \in {"airport:", "fir:", "ctrl:"}}

\* The calls whose exception store_track and store_pilots catch.
SwallowedCalls == {<<"POST", "track">>, <<"POST", "pilot:">>}

\* The loop took its except branch and kept the version it had.
Aborted ==
    /\ outcome.exit = "raise"
    /\ outcome.branch = "backoff"
    /\ delay = 10
    /\ version = outcome.prev

C8_AcceptedCycleStoresAll ==
    /\ (EndedNewer /\ outcome.failed = {} /\ outcome.cause # "parse") =>
          /\ outcome.exit = "done"
          /\ outcome.branch = "processed"
          /\ version = outcome.fetched
    /\ (Done /\ Failed(log) = {}) =>
          ({<<"POST", "track">>} \cup {<<"POST", prefix>> : prefix \in Prefixes})
             \subseteq Issued(log)

\* C9: the loop never stops: from every state it comes back to Idle, and
\* from Idle it calls process() again.
C9_LoopNeverStops ==
    /\ (pc # Idle) ~> (pc = Idle)
    /\ (pc = Idle) ~> (pc = <<"fetch">>)

\* The loop is back in Idle after a cycle that a resolution error aborted.
C9_Witness ==
    /\ pc = Idle
    /\ outcome.exit = "raise"
    /\ outcome.cause = "type"
    /\ outcome.prev # None

\* C10: at most one cycle is in flight, a cycle starts only from Idle, and
\* the retained version changes only in the step that ends the one cycle in
\* flight.
C10_SingleCycleInFlight ==
    /\ [](inflight \in {0, 1} /\ (inflight = 0 <=> pc = Idle))
    /\ [][inflight' > inflight => (pc = Idle /\ inflight = 0)]_vars
    /\ [][version' # version => (inflight = 1 /\ inflight' = 0)]_vars

\* A cycle is in flight after an earlier one left a retained version.
C10_Witness ==
    /\ inflight = 1
    /\ pc = <<"delete", "pilot:">>
    /\ start.version # None

(***************************************************************************)
(* Properties of store_controllers and of the reference data.              *)
(***************************************************************************)
\* The record of a controllers list is of the tower family and its callsign
\* has an airport in dataset d.
ResolvesToAirport(rec, d) ==
    /\ rec.facility \in 2..5
    /\ find_airport_by_ctrl(d, rec.callsign) # None

\* The airports that the tower-family records of a controllers list have
\* in the loaded dataset.
ControlledAirports(ctrls) ==
    IF fixed_data = None THEN {}
    ELSE {find_airport_by_ctrl(fixed_data[1], ctrls[i].callsign)[1].icao :
             i \in {j \in 1..Len(ctrls) : ResolvesToAirport(ctrls[j], fixed_data[1])}}

\* The keys of the requests op of the cycle in flight for a namespace.
KeysOf(op, prefix) ==
    UNION {log[i].keys : i \in {j \in 1..Len(log) :
                                  log[j].op = op /\ log[j].prefix = prefix}}

IsStationCode(code, callsign) ==
    /\ \E n \in 0..Len(callsign) : code = Left(callsign, n)
    /\ \A i \in 1..Len(code) : code[i] # "_"
    /\ Len(code) < Len(callsign) => callsign[Len(code) + 1] = "_"

\* The first record of list seq among the positions S, none when S is empty.
FirstAt(seq, S) ==
    IF S = {} THEN None
    ELSE Some(seq[CHOOSE i \in S : \A j \in S : i <= j])

\* The positions of the airports of dataset d under an ICAO, an IATA code.
WithIcao(d, code) == {i \in 1..Len(d.airports) : d.airports[i].icao = code}

WithIata(d, code) == {i \in 1..Len(d.airports) : d.airports[i].iata = Some(code)}

\* C12: find_airport_by_ctrl returns, for a station code of fewer than 4
\* characters, the first airport under that IATA code or none, without
\* regard to the ICAO codes; for a longer code the first airport under that
\* ICAO code, else the first under that IATA code, else none.
C12_FindAirportByCtrl ==
    lookup.fn = "find_airport_by_ctrl" =>
       \A n \in 0..Len(lookup.arg) :
          LET code == Left(lookup.arg, n)
              d == fixed_data[1]
          IN  IsStationCode(code, lookup.arg) =>
                 lookup.result =
                    IF Len(code) < 4 THEN FirstAt(d.airports, WithIata(d, code))
                    ELSE IF WithIcao(d, code) # {}
                         THEN FirstAt(d.airports, WithIcao(d, code))
                         ELSE FirstAt(d.airports, WithIata(d, code))

\* A code of three characters is the ICAO code of the first airport and the
\* IATA code of the second: the lookup returned the second.
C12_Witness ==
    /\ lookup.fn = "find_airport_by_ctrl"
    /\ lookup.arg = LHR_TWR
    /\ Len(fixed_data[1].airports) = 2
    /\ fixed_data[1].airports[1].icao = LHR
    /\ fixed_data[1].airports[2].iata = Some(LHR)
    /\ lookup.result = Some(fixed_data[1].airports[2])

\* The positions of the FIRs of dataset d under an ICAO code.
FirsWithIcao(d, code) == {i \in 1..Len(d.firs) : d.firs[i].icao = code}

\* The lengths n >= 5 for which the first n characters of callsign are the
\* radio prefix of a FIR of dataset d.
PrefixLengths(d, callsign) ==
    {n \in 5..Len(callsign) :
        \E i \in 1..Len(d.firs) : d.firs[i].prefix = Left(callsign, n)}

\* C13: find_fir_by_ctrl returns the first FIR under the station code in the
\* ICAO index; without one, a FIR whose radio prefix is the longest left
\* substring of the callsign, of 5 characters or more, that is a radio
\* prefix; a shorter radio prefix never matches, and without a hit the
\* result is none.
C13_FindFirByCtrl ==
    lookup.fn = "find_fir_by_ctrl" =>
       \A n \in 0..Len(lookup.arg) :
          LET code == Left(lookup.arg, n)
              d == fixed_data[1]
              lengths == PrefixLengths(d, lookup.arg)
          IN  IsStationCode(code, lookup.arg) =>
                 IF FirsWithIcao(d, code) # {}
                 THEN lookup.result = FirstAt(d.firs, FirsWithIcao(d, code))
                 ELSE IF lengths = {}
                 THEN lookup.result = None
                 ELSE /\ lookup.result # None
                      /\ \E i \in 1..Len(d.firs) : lookup.result[1] = d.firs[i]
                      /\ Len(lookup.result[1].prefix) >= 5
                      /\ Len(lookup.result[1].prefix) \in lengths
                      /\ lookup.result[1].prefix =
                            Left(lookup.arg, Len(lookup.result[1].prefix))
                      /\ \A m \in lengths : m <= Len(lookup.result[1].prefix)

\* The callsign has no FIR under its station code, its first five and its
\* first six characters are radio prefixes, and the FIR of the longer one,
\* the second of the list, was returned.
C13_Witness ==
    /\ lookup.fn = "find_fir_by_ctrl"
    /\ lookup.arg = LON_SC_CTR
    /\ Len(fixed_data[1].firs) = 2
    /\ fixed_data[1].firs[1].prefix = LON_S
    /\ fixed_data[1].firs[2].prefix = LON_SC
    /\ lookup.result = Some(fixed_data[1].firs[2])

\* The positions of the countries of dataset d with a code.
CountriesWithCode(d, code) ==
    {i \in 1..Len(d.countries) : d.countries[i].code = code}

\* C14: find_country_by_icao returns a loaded country whose code is the
\* first two characters of the ICAO code, wherever it stands in the list,
\* and none only when no loaded country has that code.
C14_FindCountryByIcao ==
    lookup.fn = "find_country_by_icao" =>
       LET d == fixed_data[1]
           S == CountriesWithCode(d, Left(lookup.arg, 2))
       IN  IF S = {} THEN lookup.result = None
           ELSE \E i \in S : lookup.result = Some(d.countries[i])

\* The record of a controllers list is a FIR controller and its callsign
\* has a FIR in dataset d.
ResolvesToFir(rec, d) ==
    /\ rec.facility = 6
    /\ find_fir_by_ctrl(d, rec.callsign) # None

\* The record of a controllers list has a role (facility 2..6) and its
\* callsign has no airport, no FIR in dataset d.
Unresolved(rec, d) ==
    /\ rec.facility \in 2..6
    /\ ~ResolvesToAirport(rec, d)
    /\ ~ResolvesToFir(rec, d)

\* The lists hold a record that resolves to nothing in the loaded dataset:
\* a controller with a role, or an ATIS record without airport.
SomeUnresolved(lists) ==
    /\ fixed_data # None
    /\ \/ \E i \in 1..Len(lists.controllers) :
             Unresolved(lists.controllers[i], fixed_data[1])
       \/ \E i \in 1..Len(lists.atis) :
             find_airport_by_ctrl(fixed_data[1], lists.atis[i].callsign) = None

\* A record of the lists resolves to an airport or a FIR.
SomeResolved(lists) ==
    /\ fixed_data # None
    /\ \/ \E i \in 1..Len(lists.controllers) :
             \/ ResolvesToAirport(lists.controllers[i], fixed_data[1])
             \/ ResolvesToFir(lists.controllers[i], fixed_data[1])
       \/ \E i \in 1..Len(lists.atis) :
             find_airport_by_ctrl(fixed_data[1], lists.atis[i].callsign) # None

\* C15: a record that resolves to no airport and no FIR does not abort the
\* cycle: a cycle that reads such records and none that resolves, with every
\* network call answered, is accepted, and such a record adds no key to the
\* airport:, fir: and ctrl: upserts.
C15_UnresolvedRecordSkipped ==
    /\ (/\ pc = Idle
        /\ outcome.lists # None
        /\ SomeUnresolved(outcome.lists[1])
        /\ ~SomeResolved(outcome.lists[1])
        /\ outcome.failed = {}) => outcome.exit = "done"
    /\ (Done /\ SomeUnresolved(data.lists[1]) /\ ~SomeResolved(data.lists[1])) =>
          /\ KeysOf("POST", "airport:") = {}
          /\ KeysOf("POST", "fir:") = {}
          /\ KeysOf("POST", "ctrl:") = {}

\* The namespaces store_controllers has reconciled when it reconciles prefix
\* (lines 384-386, in that order).
ReconciledBefore(prefix) ==
    CASE prefix = "pilot:" -> {}
      [] prefix = "airport:" -> {}
      [] prefix = "fir:" -> {"airport:"}
      [] prefix = "ctrl:" -> {"airport:", "fir:"}

\* The step ends the cycle with an exception.
Raises == pc # Idle /\ pc' = Idle /\ outcome'.exit = "raise"

\* A namespace of the cycle in flight has been upserted.
Upserted(prefix) == UpsertedBefore(Len(log) + 1, prefix)

\* A step of the reconciliation of a namespace (its keys GET or its DELETE):
\* it removes keys of that namespace only, and then exactly the stored keys
\* of the namespace that are not current; it follows the reconciliation of
\* the namespaces before it, which hold no stale key any more; when it
\* fails, the cycle ends and the store is left as it is.
ReconcileStep ==
    pc[1] \in {"keys", "delete"} =>
       /\ store' \subseteq store
       /\ \A k \in store \ store' : k[1] = pc[2]
       /\ store' # store =>
             store \ store' = KeysWithPrefix(store, pc[2]) \ DOMAIN maps[pc[2]]
       /\ \A q \in ReconciledBefore(pc[2]) :
             KeysWithPrefix(store, q) \subseteq DOMAIN maps[q]
       /\ Raises => store' = store

\* C16, as the code has it: a reconciliation touches the keys of its own
\* namespace only and deletes its stored keys that are not current; the
\* namespaces are reconciled one after the other, and a failed
\* reconciliation ends the cycle, leaving the later namespaces unreconciled.
C16_ReconciledInOrder == [][ReconcileStep]_vars

\* A cycle ended when the DELETE of the airport: namespace failed, and the
\* stale fir: key is still stored.
C16_Witness ==
    /\ pc = Idle
    /\ outcome.exit = "raise"
    /\ <<"DELETE", "airport:">> \in outcome.failed
    /\ Key("airport:", EGLL) \in store
    /\ Key("fir:", EGTT) \in store

\* C16, as stated: whether the stale keys of an upserted namespace are
\* deleted in a cycle does not depend on the outcome of the reconciliation
\* of another namespace: when the reconciliation of one namespace fails,
\* every other upserted namespace is left without stale key.
C16_NamespacesIndependent ==
    [][(pc[1] \in {"keys", "delete"} /\ Raises) =>
          \A q \in Prefixes \ {pc[2]} :
             Upserted(q) => KeysWithPrefix(store', q) \subseteq DOMAIN maps[q]]_vars

\* The callsigns of the records of the lists that resolve in the loaded
\* dataset: tower-family and ATIS records to an airport, FIR controllers to
\* a FIR (with or without boundaries).
ResolvedCallsigns(lists) ==
    IF fixed_data = None THEN {}
    ELSE {lists.controllers[i].callsign :
             i \in {j \in 1..Len(lists.controllers) :
                       \/ ResolvesToAirport(lists.controllers[j], fixed_data[1])
                       \/ ResolvesToFir(lists.controllers[j], fixed_data[1])}}
         \cup {lists.atis[i].callsign :
                 i \in {j \in 1..Len(lists.atis) :
                           find_airport_by_ctrl(fixed_data[1],
                                                lists.atis[j].callsign) # None}}

\* C17: a controller that resolves does not abort the cycle, whether or not
\* its FIR has boundaries: a cycle that reads one, with every network call
\* answered, is accepted, and ctrl:<callsign> of every resolved controller
\* is in its ctrl: upsert, with one position.
C17_ResolvedControllerStored ==
    /\ (/\ pc = Idle
        /\ outcome.lists # None
        /\ ResolvedCallsigns(outcome.lists[1]) # {}
        /\ outcome.failed = {}) => outcome.exit = "done"
    /\ Done => \A callsign \in ResolvedCallsigns(data.lists[1]) :
                  /\ Key("ctrl:", callsign) \in KeysOf("POST", "ctrl:")
                  /\ Key("ctrl:", callsign) \in DOMAIN maps["ctrl:"]
                  /\ DOMAIN maps["ctrl:"][Key("ctrl:", callsign)].data.position
                        = {"lat", "lng"}

\* C18: a load of the reference dataset that fails leaves the cache as it
\* was: the cache is unset or holds the index of the whole reference file,
\* never an index of fewer records; a failed load aborts the cycle, the loop
\* keeps its version, and the cache stays unset for the next get_data to
\* load again.
C18_FailedLoadLeavesCache ==
    /\ fixed_data \in {None, Some(ReferenceFile)}
    /\ (pc = Idle /\ <<"GET", "reference">> \in outcome.failed) =>
          /\ outcome.exit = "raise"
          /\ version = outcome.prev
          /\ fixed_data = None

\* The facility code of a role slot.
SlotCode(slot) ==
    CASE slot = "atis" -> 1
      [] slot = "delivery" -> 2
      [] slot = "ground" -> 3
      [] slot = "tower" -> 4
      [] slot = "approach" -> 5

\* The airports that the records of an atis list have in the loaded dataset.
AtisAirports(atis) ==
    IF fixed_data = None THEN {}
    ELSE {find_airport_by_ctrl(fixed_data[1], atis[i].callsign)[1].icao :
             i \in {j \in 1..Len(atis) :
                       find_airport_by_ctrl(fixed_data[1], atis[j].callsign) # None}}

\* A role slot of an airport of the cycle's airport map is empty or holds
\* one controller of the slot's facility whose callsign resolves to the
\* airport.
SlotHoldsItsRole(arpt, slot) ==
    \/ arpt.controllers[slot] = None
    \/ /\ Len(arpt.controllers[slot]) = 1
       /\ arpt.controllers[slot][1].facility = SlotCode(slot)
       /\ find_airport_by_ctrl(fixed_data[1], arpt.controllers[slot][1].callsign)
             # None
       /\ find_airport_by_ctrl(fixed_data[1],
                               arpt.controllers[slot][1].callsign)[1].icao = arpt.icao

\* C19: store_controllers builds, for a record of the atis list that
\* resolves, an airport whose atis slot holds a controller of facility 1,
\* whatever facility the feed gave; every slot of every airport built is
\* empty or holds one controller of the slot's facility that resolves to
\* the airport.
C19_RoleSlots ==
    /\ (/\ pc = Idle
        /\ outcome.lists # None
        /\ AtisAirports(outcome.lists[1].atis) # {}
        /\ outcome.failed = {}) => outcome.exit = "done"
    /\ Done => \A icao \in AtisAirports(data.lists[1].atis) :
                  /\ Key("airport:", icao) \in DOMAIN maps["airport:"]
                  /\ maps["airport:"][Key("airport:", icao)].data.controllers.atis
                        # None
    /\ \A k \in DOMAIN maps["airport:"] :
          \A slot \in DOMAIN AirportControllerSet :
             SlotHoldsItsRole(maps["airport:"][k].data, slot)

\* The lists hold records of the controllers list with a facility outside
\* 1..6 and nothing else.
OnlyUnknownFacilities(lists) ==
    /\ lists.atis = <<>>
    /\ lists.controllers # <<>>
    /\ \A i \in 1..Len(lists.controllers) :
          lists.controllers[i].facility \notin 1..6

\* C20: records of the controllers list with a facility outside 1..6 are
\* ignored: a cycle that reads nothing else builds empty airport:, fir: and
\* ctrl: maps, is not aborted by store_controllers, and is accepted when
\* every network call is answered.
C20_UnknownFacilityIgnored ==
    /\ (pc = Idle /\ outcome.lists # None
                  /\ OnlyUnknownFacilities(outcome.lists[1])) =>
          /\ outcome.cause \notin {"type", "attr"}
          /\ <<"GET", "reference">> \notin outcome.failed
          /\ outcome.failed = {} => outcome.exit = "done"
    /\ (pc[1] \in {"post", "keys", "delete", "return"} /\ data.lists # None
                  /\ OnlyUnknownFacilities(data.lists[1])) =>
          \A prefix \in {"airport:", "fir:", "ctrl:"} : DOMAIN maps[prefix] = {}

\* A cycle whose controllers list held the one record EGLL_OBS, of facility
\* 0, has upserted and reconciled its airport:, fir: and ctrl: namespaces,
\* deleting the stored controller key, and returns the snapshot's version.
C20_Witness ==
    /\ Done
    /\ data.lists # None
    /\ data.lists[1].controllers = <<[callsign |-> EGLL_OBS, facility |-> 0]>>
    /\ Key("ctrl:", EGLL_TWR) \in start.store
    /\ Key("ctrl:", EGLL_TWR) \notin store
    /\ Failed(log) = {}

\* The callsigns of the facility-6 records of a controllers list that
\* resolve to the FIR icao in the dataset of the cache.
ControllersOfFir(cache, ctrls, icao) ==
    IF cache = None THEN {}
    ELSE {ctrls[i].callsign :
             i \in {j \in 1..Len(ctrls) :
                       /\ ResolvesToFir(ctrls[j], cache[1])
                       /\ find_fir_by_ctrl(cache[1], ctrls[j].callsign)[1].icao
                            = icao}}

\* The FIRs to which a facility-6 record of a controllers list resolves.
ControlledFirs(cache, ctrls) ==
    IF cache = None THEN {}
    ELSE {find_fir_by_ctrl(cache[1], ctrls[i].callsign)[1].icao :
             i \in {j \in 1..Len(ctrls) : ResolvesToFir(ctrls[j], cache[1])}}

\* C21: the facility-6 controllers of a cycle that resolve to one FIR are
\* all in the controller mapping of the one fir:<icao> value the cycle
\* upserts: a cycle that reads such controllers, with every network call
\* answered, gets to its upserts, and the keys of the mapping are exactly
\* the callsigns resolved to the FIR.
C21_FirHostsItsControllers ==
    /\ (/\ pc = Idle
        /\ outcome.lists # None
        /\ ControlledFirs(fixed_data, outcome.lists[1].controllers) # {}
        /\ outcome.failed = {}) => outcome.exit = "done"
    /\ (pc[1] \in {"post", "keys", "delete", "return"} /\ data.lists # None) =>
          \A icao \in ControlledFirs(fixed_data, data.lists[1].controllers) :
             /\ Key("fir:", icao) \in DOMAIN maps["fir:"]
             /\ DOMAIN maps["fir:"][Key("fir:", icao)].data.controllers
                   = ControllersOfFir(fixed_data, data.lists[1].controllers, icao)

\* The airports to which a record of the lists resolves: a tower-family
\* record of the controllers list or a record of the atis list.
HostAirports(lists) ==
    ControlledAirports(lists.controllers) \cup AtisAirports(lists.atis)

\* An airport of the airport map has one of its five role slots set.
AirportHasController(arpt) ==
    \E slot \in DOMAIN AirportControllerSet : arpt.controllers[slot] # None

\* C22: no empty composite is upserted and none is left out: a cycle that
\* reads a record resolved to an airport or a FIR, with every network call
\* answered, gets to its upserts; the keys of the airport: and fir: maps
\* are exactly the airports and FIRs to which a record of the cycle
\* resolved; every airport of the map has a role slot set and every FIR of
\* the map a controller.
C22_NoEmptyComposite ==
    /\ (/\ pc = Idle
        /\ outcome.lists # None
        /\ \/ HostAirports(outcome.lists[1]) # {}
           \/ ControlledFirs(fixed_data, outcome.lists[1].controllers) # {}
        /\ outcome.failed = {}) => outcome.exit = "done"
    /\ (pc[1] \in {"post", "keys", "delete", "return"} /\ data.lists # None) =>
          /\ DOMAIN maps["airport:"]
                = {Key("airport:", icao) : icao \in HostAirports(data.lists[1])}
          /\ DOMAIN maps["fir:"]
                = {Key("fir:", icao) :
                     icao \in ControlledFirs(fixed_data, data.lists[1].controllers)}
    /\ \A k \in DOMAIN maps["airport:"] :
          AirportHasController(maps["airport:"][k].data)
    /\ \A k \in DOMAIN maps["fir:"] :
          DOMAIN maps["fir:"][k].data.controllers # {}

\* The sleep the loop takes after a cycle that process() ends with a
\* version other than the retained one (lines 424-427).
ProcessedDelay == OnReturn(Some(MaxVersion + 1)).delay

\* The loop sleeps after a cycle of the branch, for the time the branch
\* chose.
SleepsAfter(branch) == pc = Idle /\ outcome.branch = branch /\ delay > 0

\* C23: the three delays of the loop are ordered: the sleep after a skipped
\* cycle is strictly shorter than the sleep after a processed cycle, and
\* the sleep after a failed cycle is strictly longer than it.
C23_DelaysOrdered ==
    /\ SleepsAfter("nonew") => delay < ProcessedDelay
    /\ SleepsAfter("processed") => delay = ProcessedDelay
    /\ SleepsAfter("backoff") => delay > ProcessedDelay
====
